---- MODULE Spec2Model ----
(***************************************************************************)
(* Shape-level model of the conditional 1-D U-Net diffusion backbone       *)
(* (ConditionalUnet1D and its building blocks).  Tensors are represented   *)
(* by their shapes; the timestep normalisation and the FiLM modulation of  *)
(* the residual block are modelled on values.                              *)
(***************************************************************************)
EXTENDS Integers, Sequences, FiniteSets, TLC

\* ------------------------------------------------------------- bounds
MaxStages == 3
MaxBatch == 2
MaxHorizon == 8
MaxTimestep == 8
MaxChannels == 2

\* ---------------------------------------------------- program constants
\* Python's None for the optional dimensions and optional arguments.
None == -1
\* default of diffusion_step_embed_dim
diffusion_step_embed_dim == 256
\* default of kernel_size
kernel_size == 3
\* default n_groups of Conv1dBlock (used when the caller passes none)
Conv1dBlock_default_n_groups == 8

\* ------------------------------------------------------- input domains
Widths == {4, 8}
InputDims == {2, 7}
GroupCounts == {4, 8}
GlobalCondDims == {None, 3}
LocalCondDims == {None, 2}
DownDimsSet ==
    (UNION {[1..n -> Widths] : n \in 1..MaxStages}) \cup {<<32, 64>>}

\* ------------------------------------------------------------ helpers
Last(s) == s[Len(s)]
Reverse(s) == [i \in 1..Len(s) |-> s[Len(s) + 1 - i]]
\* list(zip(a[:-1], a[1:]))
ZipPairs(a) == [i \in 1..(Len(a) - 1) |-> <<a[i], a[i + 1]>>]

\* ------------------------------------------------------- tensor shapes
Tensor(b, c, l) == [ok |-> TRUE, exc |-> "none", b |-> b, c |-> c, l |-> l]
\* the outcome of an operation that raises exception e
Raise(e) == [ok |-> FALSE, exc |-> e, b |-> 0, c |-> 0, l |-> 0]
\* a size or shape mismatch inside a torch operation
Raised == Raise("RuntimeError")

\* output length of nn.Conv1d(kernel k, stride s, padding p)
Conv1dLen(l, k, s, p) == ((l + 2 * p - k) \div s) + 1
\* output length of nn.ConvTranspose1d(kernel k, stride s, padding p)
ConvTranspose1dLen(l, k, s, p) == (l - 1) * s - 2 * p + k

\* nn.Conv1d(cin, cout, k, stride s, padding p) applied to x
Conv1d(x, cin, cout, k, s, p) ==
    IF ~x.ok THEN x
    ELSE IF x.c = cin /\ Conv1dLen(x.l, k, s, p) >= 1
    THEN Tensor(x.b, cout, Conv1dLen(x.l, k, s, p))
    ELSE Raised

\* elementwise a + b (or a * b) with broadcasting of axes of size 1
BroadcastAxis(m, n) == IF m = n THEN m ELSE IF m = 1 THEN n ELSE IF n = 1 THEN m ELSE 0
Broadcast(a, b) ==
    IF ~a.ok THEN a
    ELSE IF ~b.ok THEN b
    ELSE IF BroadcastAxis(a.b, b.b) > 0 /\ BroadcastAxis(a.c, b.c) > 0
            /\ BroadcastAxis(a.l, b.l) > 0
    THEN Tensor(BroadcastAxis(a.b, b.b), BroadcastAxis(a.c, b.c), BroadcastAxis(a.l, b.l))
    ELSE Raised

\* torch.cat((a, b), dim=1)
CatChannels(a, b) ==
    IF ~a.ok THEN a
    ELSE IF ~b.ok THEN b
    ELSE IF a.b = b.b /\ a.l = b.l
    THEN Tensor(a.b, a.c + b.c, a.l)
    ELSE Raised

\* --------------------------------------------------------- Conv1dBlock
\* Conv1d --> GroupNorm --> Mish; nn.GroupNorm(n_groups, out_channels) raises
\* at construction unless n_groups divides out_channels.
Conv1dBlock(inp_channels, out_channels, k, n_groups) ==
    [inp_channels |-> inp_channels, out_channels |-> out_channels,
     kernel_size |-> k, padding |-> k \div 2, n_groups |-> n_groups,
     valid |-> (out_channels % n_groups = 0)]

\* nn.GroupNorm applied to x: torch refuses (ValueError, "Expected more than
\* 1 value per channel") an input whose every group holds a single value
GroupNormForward(n_groups, x) ==
    IF ~x.ok THEN x
    ELSE IF ((x.b * x.c) \div n_groups) * x.l = 1 THEN Raise("ValueError")
    ELSE x

Conv1dBlockForward(blk, x) ==
    GroupNormForward(blk.n_groups,
        Conv1d(x, blk.inp_channels, blk.out_channels, blk.kernel_size, 1, blk.padding))

\* ------------------------------------------ ConditionalResidualBlock1D
CondChannels(out_channels, cond_predict_scale) ==
    IF cond_predict_scale THEN out_channels * 2 ELSE out_channels

ConditionalResidualBlock1D(in_channels, out_channels, cond_dim, k, n_groups, cond_predict_scale) ==
    [in_channels |-> in_channels, out_channels |-> out_channels,
     cond_dim |-> cond_dim,
     blocks |-> <<Conv1dBlock(in_channels, out_channels, k, n_groups),
                  Conv1dBlock(out_channels, out_channels, k, n_groups)>>,
     cond_channels |-> CondChannels(out_channels, cond_predict_scale),
     cond_predict_scale |-> cond_predict_scale,
     residual_conv |-> IF in_channels # out_channels THEN "Conv1d" ELSE "Identity"]

BlockValid(rb) == rb.blocks[1].valid /\ rb.blocks[2].valid

\* cond_encoder: Mish, Linear(cond_dim, cond_channels), Rearrange 'b t -> b t 1'
CondEncoder(rb, cond) ==
    IF ~cond.ok THEN cond
    ELSE IF cond.c = rb.cond_dim
    THEN Tensor(cond.b, rb.cond_channels, 1)
    ELSE Raised

ResidualConv(rb, x) ==
    IF rb.residual_conv = "Conv1d"
    THEN Conv1d(x, rb.in_channels, rb.out_channels, 1, 1, 0)
    ELSE x

\* embed.reshape(B, 2, out_channels, 1); scale = embed[:,0]; bias = embed[:,1]
FiLMPart(rb, embed) ==
    IF ~embed.ok THEN embed
    ELSE IF embed.c = 2 * rb.out_channels
    THEN Tensor(embed.b, rb.out_channels, 1)
    ELSE Raised

\* ConditionalResidualBlock1D.forward(x, cond) on shapes; cond is (B, width)
\* held as Tensor(B, width, 1)
ResBlockForward(rb, x, cond) ==
    LET out0 == Conv1dBlockForward(rb.blocks[1], x)
        embed == IF out0.ok THEN CondEncoder(rb, cond) ELSE out0
        out1 == IF rb.cond_predict_scale
                THEN Broadcast(Broadcast(FiLMPart(rb, embed), out0), FiLMPart(rb, embed))
                ELSE Broadcast(embed, out0)
        out2 == Conv1dBlockForward(rb.blocks[2], out1)
    IN  Broadcast(out2, ResidualConv(rb, x))

\* ------------------------------------------- Downsample1d / Upsample1d
Downsample1dLen(l) == Conv1dLen(l, 3, 2, 1)
\* (mutant) a transposed convolution of kernel 3 instead of 4
Upsample1dLenKernel3(l) == ConvTranspose1dLen(l, 3, 2, 1)
Upsample1dLen(l) == ConvTranspose1dLen(l, 4, 2, 1)

\* a stage's third module: Downsample1d(dim), Upsample1d(dim) or nn.Identity()
Resample(kind, dim, x) ==
    IF ~x.ok THEN x
    ELSE IF kind = "Identity" THEN x
    ELSE IF x.c # dim THEN Raised
    ELSE IF kind = "Downsample1d" THEN Tensor(x.b, x.c, Downsample1dLen(x.l))
    ELSE Tensor(x.b, x.c, Upsample1dLen(x.l))

\* --------------------------------------------- ConditionalUnet1D.__init__
\* attributes that __init__ assigns on self
Attributes ==
    {"returns_condition", "mid_modules", "diffusion_step_encoder",
     "local_cond_encoder", "up_modules", "down_modules", "final_conv"}

CondDim(global_cond_dim) ==
    IF global_cond_dim # None
    THEN diffusion_step_embed_dim + global_cond_dim
    ELSE diffusion_step_embed_dim

AllDims(a) == <<a.input_dim>> \o a.down_dims
InOut(a) == ZipPairs(AllDims(a))

NewBlock(a, dim_in, dim_out) ==
    ConditionalResidualBlock1D(dim_in, dim_out, CondDim(a.global_cond_dim),
                               kernel_size, a.n_groups, a.cond_predict_scale)

\* local_cond_encoder: None (held as <<>>) or the pair (down encoder, up encoder)
LocalCondEncoder(a) ==
    IF a.local_cond_dim # None
    THEN <<NewBlock(a, a.local_cond_dim, InOut(a)[1][2]),
           NewBlock(a, a.local_cond_dim, InOut(a)[1][2])>>
    ELSE <<>>

MidModules(a) ==
    <<NewBlock(a, Last(AllDims(a)), Last(AllDims(a))),
      NewBlock(a, Last(AllDims(a)), Last(AllDims(a)))>>

\* for ind, (dim_in, dim_out) in enumerate(in_out); ind = i - 1
DownIsLast(a, i) == (i - 1) >= (Len(InOut(a)) - 1)
DownModules(a) ==
    [i \in 1..Len(InOut(a)) |->
        LET dim_in == InOut(a)[i][1]
            dim_out == InOut(a)[i][2]
        IN  [resnet |-> NewBlock(a, dim_in, dim_out),
             resnet2 |-> NewBlock(a, dim_out, dim_out),
             resample |-> IF ~DownIsLast(a, i) THEN "Downsample1d" ELSE "Identity",
             dim |-> dim_out]]

\* for ind, (dim_in, dim_out) in enumerate(reversed(in_out[1:])); ind = i - 1
UpPairs(a) == Reverse(Tail(InOut(a)))
UpIsLast(a, i) == (i - 1) >= (Len(InOut(a)) - 1)
UpModules(a) ==
    [i \in 1..Len(UpPairs(a)) |->
        LET dim_in == UpPairs(a)[i][1]
            dim_out == UpPairs(a)[i][2]
        IN  [resnet |-> NewBlock(a, dim_out * 2, dim_in),
             resnet2 |-> NewBlock(a, dim_in, dim_in),
             resample |-> IF ~UpIsLast(a, i) THEN "Upsample1d" ELSE "Identity",
             dim |-> dim_in]]

\* Conv1dBlock(start_dim, start_dim, kernel_size=kernel_size), nn.Conv1d(start_dim, input_dim, 1)
FinalConv(a) ==
    [block |-> Conv1dBlock(a.down_dims[1], a.down_dims[1], kernel_size,
                           Conv1dBlock_default_n_groups),
     conv_in |-> a.down_dims[1], conv_out |-> a.input_dim]

NewUnet(a) ==
    [input_dim |-> a.input_dim,
     global_cond_dim |-> a.global_cond_dim,
     local_cond_dim |-> a.local_cond_dim,
     returns_condition |-> a.returns_condition,
     cond_dim |-> CondDim(a.global_cond_dim),
     local_cond_encoder |-> LocalCondEncoder(a),
     mid_modules |-> MidModules(a),
     down_modules |-> DownModules(a),
     up_modules |-> UpModules(a),
     final_conv |-> FinalConv(a)]

\* every nn.GroupNorm built by __init__ accepted its arguments
AllBlocks(m) ==
    {m.mid_modules[i] : i \in 1..Len(m.mid_modules)}
    \cup {m.local_cond_encoder[i] : i \in 1..Len(m.local_cond_encoder)}
    \cup {m.down_modules[i].resnet : i \in 1..Len(m.down_modules)}
    \cup {m.down_modules[i].resnet2 : i \in 1..Len(m.down_modules)}
    \cup {m.up_modules[i].resnet : i \in 1..Len(m.up_modules)}
    \cup {m.up_modules[i].resnet2 : i \in 1..Len(m.up_modules)}
ConstructionSucceeds(a) ==
    /\ \A rb \in AllBlocks(NewUnet(a)) : BlockValid(rb)
    /\ FinalConv(a).block.valid

CtorArgs ==
    [input_dim : InputDims, local_cond_dim : LocalCondDims,
     global_cond_dim : GlobalCondDims, down_dims : DownDimsSet,
     n_groups : GroupCounts, cond_predict_scale : BOOLEAN,
     returns_condition : BOOLEAN]

\* ----------------------------------------------- timestep normalisation
\* A timestep value is held as its number of halves (3 is 1.5), so that
\* non-integer floats are representable.
\* conversion of a Python number to dtype=torch.long: truncation toward zero
ToLong(v) == IF v >= 0 THEN (v \div 2) * 2 ELSE 0 - (((0 - v) \div 2) * 2)

\* timesteps.expand(B) of a 1-d tensor; <<>> stands for the RuntimeError
Expand(vec, B) ==
    IF Len(vec) = B THEN vec
    ELSE IF Len(vec) = 1 THEN [i \in 1..B |-> vec[1]]
    ELSE <<>>

\* lines 146-153: timestep is a plain number, a 0-d tensor or a 1-d tensor
NormalizeTimestep(timestep, B) ==
    IF timestep.kind = "number" THEN Expand(<<ToLong(timestep.vals[1])>>, B)
    ELSE IF timestep.kind = "zerodim" THEN Expand(<<timestep.vals[1]>>, B)
    ELSE Expand(timestep.vals, B)

TimestepKinds == {"number", "zerodim", "vector"}
\* the representations of value v for a batch of B
TimestepOf(kind, v, B) ==
    [kind |-> kind, v |-> v,
     vals |-> IF kind = "vector" THEN [i \in 1..B |-> v] ELSE <<v>>]

\* ------------------------------------------- FiLM modulation on values
\* nn.Linear(1, cond_channels) on a scalar conditioning feature m
Linear(weight, bias, m) == [i \in 1..Len(weight) |-> weight[i] * m + bias[i]]
\* embed.reshape(2, out_channels): row-major
\* (mutant) scale and bias entries interleaved instead of in two halves
ReshapeInterleaved(embed, out_channels) ==
    [i \in 1..2 |-> [c \in 1..out_channels |-> embed[(c - 1) * 2 + i]]]
Reshape(embed, out_channels) ==
    [i \in 1..2 |-> [c \in 1..out_channels |-> embed[(i - 1) * out_channels + c]]]
EmbedScale(embed, out_channels) == Reshape(embed, out_channels)[1]
EmbedBias(embed, out_channels) == Reshape(embed, out_channels)[2]
\* lines 319-326
Modulate(cond_predict_scale, out_channels, embed, out) ==
    IF cond_predict_scale
    THEN [c \in 1..out_channels |->
            EmbedScale(embed, out_channels)[c] * out[c]
            + EmbedBias(embed, out_channels)[c]]
    ELSE [c \in 1..out_channels |-> out[c] + embed[c]]

\* ------------------------------------------------------------- state
VARIABLES
    pc,              \* "new", "ctor_error", "ready", "down", "up", "done", "error"
    args,            \* the constructor's arguments
    self,            \* the constructed ConditionalUnet1D
    call,            \* the arguments of the forward call
    timesteps,       \* forward's local timesteps after normalisation
    global_feature,  \* forward's local global_feature (shape)
    h_local,         \* forward's local h_local
    x,               \* forward's local x (shape); the result once pc = "done"
    h,               \* forward's skip stack, entries tagged with the pushing stage
    idx,             \* loop index of the encoder or decoder loop
    err,             \* the exception raised, "none" if none
    log,             \* history: pushes, pops and local-conditioning injections
    tn,              \* timestep normalisation applied on its own
    film             \* the residual block's modulation applied on its own

vars == <<pc, args, self, call, timesteps, global_feature, h_local, x, h, idx,
          err, log, tn, film>>
unet_vars == <<pc, args, self, call, timesteps, global_feature, h_local, x, h,
               idx, err, log>>

NoTensor == Tensor(0, 0, 0)
NoArgs == [input_dim |-> 0, local_cond_dim |-> None, global_cond_dim |-> None,
           down_dims |-> <<>>, n_groups |-> 0, cond_predict_scale |-> FALSE,
           returns_condition |-> FALSE]
NoUnet == [input_dim |-> 0]
NoCall == [batch |-> 0, horizon |-> 0]
EmptyLog == [pushed |-> <<>>, popped |-> <<>>, enc |-> 0, dec |-> 0]
TnIdle == [stage |-> "idle"]
FilmIdle == [stage |-> "idle"]

UnetInit ==
    /\ pc = "new" /\ args = NoArgs /\ self = NoUnet /\ call = NoCall
    /\ timesteps = <<>> /\ global_feature = NoTensor /\ h_local = <<>>
    /\ x = NoTensor /\ h = <<>> /\ idx = 0 /\ err = "none" /\ log = EmptyLog

Init == UnetInit /\ tn = TnIdle /\ film = FilmIdle

\* --------------------------------------------------------- construction
Construct ==
    /\ pc = "new"
    /\ \E a \in CtorArgs :
        /\ args' = a
        /\ IF ConstructionSucceeds(a)
           THEN self' = NewUnet(a) /\ pc' = "ready" /\ err' = "none"
           ELSE self' = NoUnet /\ pc' = "ctor_error" /\ err' = "ValueError"
    /\ UNCHANGED <<call, timesteps, global_feature, h_local, x, h, idx, log, tn, film>>

\* -------------------------------------------------------------- forward
\* einops.rearrange(t, 'b h t -> b t h'): the last two axes change places
Rearrange(t) == [t EXCEPT !.c = t.l, !.l = t.c]

\* returns, use_dropout and force_dropout are read only under
\* self.returns_condition; other models are called with their defaults
ReturnsArgs(m) ==
    IF m.returns_condition
    THEN [returns : {None, 1}, use_dropout : BOOLEAN, force_dropout : BOOLEAN]
    ELSE {[returns |-> None, use_dropout |-> TRUE, force_dropout |-> FALSE]}

\* sample is (batch, horizon, input_dim); timestep is 0 in each of its
\* representations (other values are exercised by SpecTimestep)
Calls(m) ==
    {[batch |-> B, horizon |-> T, timestep |-> TimestepOf(k, 0, B),
      global_cond |-> g, local_cond |-> l,
      returns |-> r.returns, use_dropout |-> r.use_dropout,
      force_dropout |-> r.force_dropout] :
        B \in 1..MaxBatch, T \in 1..MaxHorizon, k \in TimestepKinds,
        g \in GlobalCondDims, l \in LocalCondDims, r \in ReturnsArgs(m)}

\* self.diffusion_step_encoder(timesteps): (B,) -> (B, dsed)
DiffusionStepEncoder(ts) ==
    IF Len(ts) >= 1 THEN Tensor(Len(ts), diffusion_step_embed_dim, 1) ELSE Raised

\* lines 157-160: torch.cat([global_feature, global_cond], axis=-1)
CatGlobalCond(gf, c) ==
    IF c.global_cond # None
    THEN (IF ~gf.ok THEN gf
          ELSE IF gf.b = c.batch THEN Tensor(gf.b, gf.c + c.global_cond, 1)
          ELSE Raised)
    ELSE gf

\* lines 162-172: the exception the return-conditioning branch ends with
ReturnsBranch(m, c) ==
    IF ~m.returns_condition THEN "none"
    ELSE IF c.returns = None THEN "AssertionError"
    ELSE IF "returns_mlp" \notin Attributes THEN "AttributeError"
    ELSE IF c.use_dropout /\ "mask_dist" \notin Attributes THEN "AttributeError"
    ELSE "NameError"

\* lines 175-182: h_local, or the exception raised while computing it
LocalBranch(m, c, gf) ==
    IF c.local_cond = None THEN [err |-> "none", h_local |-> <<>>]
    ELSE IF Len(m.local_cond_encoder) = 0 THEN [err |-> "TypeError", h_local |-> <<>>]
    ELSE LET lc == Rearrange(Tensor(c.batch, c.horizon, c.local_cond))
             a == ResBlockForward(m.local_cond_encoder[1], lc, gf)
             b == ResBlockForward(m.local_cond_encoder[2], lc, gf)
         IN  IF ~a.ok THEN [err |-> a.exc, h_local |-> <<>>]
             ELSE IF ~b.ok THEN [err |-> b.exc, h_local |-> <<a>>]
             ELSE [err |-> "none", h_local |-> <<a, b>>]

\* lines 143-185
ForwardBegin ==
    /\ pc = "ready"
    /\ \E c \in Calls(self) :
        LET ts == NormalizeTimestep(c.timestep, c.batch)
            gf == CatGlobalCond(DiffusionStepEncoder(ts), c)
            rb == ReturnsBranch(self, c)
            lb == LocalBranch(self, c, gf)
            e  == IF ~gf.ok THEN gf.exc
                  ELSE IF rb # "none" THEN rb
                  ELSE lb.err
        IN  /\ call' = c
            /\ timesteps' = ts
            /\ global_feature' = gf
            /\ h_local' = IF e = "none" \/ (gf.ok /\ rb = "none") THEN lb.h_local ELSE <<>>
            /\ x' = Rearrange(Tensor(c.batch, c.horizon, self.input_dim))
            /\ h' = <<>>
            /\ idx' = 0
            /\ err' = e
            /\ pc' = IF e = "none" THEN "down" ELSE "error"
    /\ UNCHANGED <<args, self, log, tn, film>>

\* lines 186-192, one iteration of the encoder loop
ForwardDown ==
    /\ pc = "down"
    /\ idx < Len(self.down_modules)
    /\ LET st == self.down_modules[idx + 1]
           inject == idx = 0 /\ Len(h_local) > 0
           x1 == ResBlockForward(st.resnet, x, global_feature)
           x2 == IF inject THEN Broadcast(x1, h_local[1]) ELSE x1
           x3 == ResBlockForward(st.resnet2, x2, global_feature)
           x4 == Resample(st.resample, st.dim, x3)
       IN  /\ h' = IF x3.ok THEN Append(h, [stage |-> idx, t |-> x3]) ELSE h
           /\ log' = [log EXCEPT
                        !.pushed = IF x3.ok THEN Append(@, idx) ELSE @,
                        !.enc = IF inject /\ x2.ok THEN @ + 1 ELSE @]
           /\ IF x4.ok
              THEN x' = x4 /\ idx' = idx + 1 /\ pc' = "down" /\ err' = "none"
              ELSE x' = x /\ idx' = idx /\ pc' = "error" /\ err' = x4.exc
    /\ UNCHANGED <<args, self, call, timesteps, global_feature, h_local, tn, film>>

\* lines 194-195, after the encoder loop
ForwardMid ==
    /\ pc = "down"
    /\ idx = Len(self.down_modules)
    /\ LET x1 == ResBlockForward(self.mid_modules[1], x, global_feature)
           x2 == ResBlockForward(self.mid_modules[2], x1, global_feature)
       IN  IF x2.ok
           THEN x' = x2 /\ idx' = 0 /\ pc' = "up" /\ err' = "none"
           ELSE x' = x /\ idx' = idx /\ pc' = "error" /\ err' = x2.exc
    /\ UNCHANGED <<args, self, call, timesteps, global_feature, h_local, h, log, tn, film>>

\* lines 197-203, one iteration of the decoder loop
ForwardUp ==
    /\ pc = "up"
    /\ idx < Len(self.up_modules)
    /\ IF h = <<>>
       THEN /\ pc' = "error" /\ err' = "IndexError"
            /\ UNCHANGED <<x, h, idx, log>>
       ELSE LET st == self.up_modules[idx + 1]
                top == Last(h)
                inject == idx = Len(self.up_modules) /\ Len(h_local) > 0
                x0 == CatChannels(x, top.t)
                x1 == ResBlockForward(st.resnet, x0, global_feature)
                x2 == IF inject THEN Broadcast(x1, h_local[2]) ELSE x1
                x3 == ResBlockForward(st.resnet2, x2, global_feature)
                x4 == Resample(st.resample, st.dim, x3)
            IN  /\ h' = SubSeq(h, 1, Len(h) - 1)
                /\ log' = [log EXCEPT
                             !.popped = Append(@, top.stage),
                             !.dec = IF inject /\ x2.ok THEN @ + 1 ELSE @]
                /\ IF x4.ok
                   THEN x' = x4 /\ idx' = idx + 1 /\ pc' = "up" /\ err' = "none"
                   ELSE x' = x /\ idx' = idx /\ pc' = "error" /\ err' = x4.exc
    /\ UNCHANGED <<args, self, call, timesteps, global_feature, h_local, tn, film>>

\* lines 205-208, after the decoder loop
ForwardFinal ==
    /\ pc = "up"
    /\ idx = Len(self.up_modules)
    /\ LET x1 == Conv1dBlockForward(self.final_conv.block, x)
           x2 == Conv1d(x1, self.final_conv.conv_in, self.final_conv.conv_out, 1, 1, 0)
       IN  IF x2.ok
           THEN x' = Rearrange(x2) /\ pc' = "done" /\ err' = "none"
           ELSE x' = x /\ pc' = "error" /\ err' = x2.exc
    /\ UNCHANGED <<args, self, call, timesteps, global_feature, h_local, h, idx, log, tn, film>>

Next ==
    \/ Construct
    \/ ForwardBegin
    \/ ForwardDown
    \/ ForwardMid
    \/ ForwardUp
    \/ ForwardFinal

Spec == Init /\ [][Next]_vars

\* ------------------------------------ timestep normalisation on its own
\* in halves: 0, 0.5, 1, ...
TimestepValues == 0..MaxTimestep

TimestepInit ==
    /\ UnetInit /\ film = FilmIdle
    /\ \E B \in 1..MaxBatch, k \in TimestepKinds, v \in TimestepValues :
          tn = [stage |-> "in", batch |-> B, timestep |-> TimestepOf(k, v, B),
                timesteps |-> <<>>]

\* lines 146-153 applied to the drawn timestep
Normalize ==
    /\ tn.stage = "in"
    /\ tn' = [tn EXCEPT !.stage = "out",
                         !.timesteps = NormalizeTimestep(tn.timestep, tn.batch)]
    /\ UNCHANGED <<unet_vars, film>>

SpecTimestep == TimestepInit /\ [][Normalize]_vars

\* ------------------------------------------ FiLM modulation on its own
WeightValues == {0, 1}
FeatureValues == {1, 2}
SeqsOf(S, n) == [1..n -> S]

FilmInit ==
    /\ UnetInit /\ tn = TnIdle
    /\ \E oc \in 1..MaxChannels, cps \in BOOLEAN :
        \E w \in SeqsOf(WeightValues, CondChannels(oc, cps)),
           b \in SeqsOf(WeightValues, CondChannels(oc, cps)),
           m \in FeatureValues, o \in SeqsOf(FeatureValues, oc) :
          film = [stage |-> "in", out_channels |-> oc, cond_predict_scale |-> cps,
                  weight |-> w, bias |-> b, cond |-> m, out |-> o,
                  embed |-> <<>>, result |-> <<>>]

\* lines 318-326 applied to the drawn block: out is blocks[0](x), cond is the
\* conditioning feature after cond_encoder's Mish
ApplyModulation ==
    /\ film.stage = "in"
    /\ LET embed == Linear(film.weight, film.bias, film.cond)
       IN  film' = [film EXCEPT
                      !.stage = "out",
                      !.embed = embed,
                      !.result = Modulate(film.cond_predict_scale,
                                          film.out_channels, embed, film.out)]
    /\ UNCHANGED <<unet_vars, tn>>

SpecFiLM == FilmInit /\ [][ApplyModulation]_vars

\* ------------------------------------------------------------- claims
Constructed == pc \notin {"new", "ctor_error"}
Called == pc \in {"down", "up", "done", "error"}
NumStages == Len(args.down_dims)
\* the decoder loop has ended
DecoderEnded == pc = "done" \/ (pc = "up" /\ idx = Len(self.up_modules))
AllZero(s) == \A i \in 1..Len(s) : s[i] = 0

RECURSIVE Pow2(_)
Pow2(n) == IF n <= 0 THEN 1 ELSE 2 * Pow2(n - 1)

\* C1: whenever forward returns, the result has the shape of sample,
\* (batch, horizon, input_dim).
C1_OutputShapeEqualsInput ==
    pc = "done" => x = Tensor(call.batch, call.horizon, args.input_dim)

\* C2: the skip stack is balanced: when the decoder loop ends every encoder
\* stage has pushed once, every pushed map has been popped once in reverse
\* push order, nothing is left on the stack, the stack was never popped
\* while empty, and there are as many decoder stages as encoder stages.
C2_SkipStackBalanced ==
    /\ err # "IndexError"
    /\ DecoderEnded =>
          /\ Len(log.pushed) = NumStages
          /\ log.popped = Reverse(log.pushed)
          /\ h = <<>>
          /\ Len(self.up_modules) = Len(self.down_modules)

\* C3: a timestep value v given as a plain number, as a 0-d tensor or as a
\* length-B vector of v is normalised to the length-B vector of v.
C3_TimestepRepresentationIndependent ==
    tn.stage = "out" => tn.timesteps = [i \in 1..tn.batch |-> tn.timestep.v]

\* C4: without conditioning dimensions and conditioning arguments, and with
\* a horizon divisible by 2^(N-1), forward raises no shape error: at every
\* decoder stage the skip entry to pop has the activation's length and the
\* concatenation has the channels the stage's first block was built for,
\* twice the skip entry's; the 7 / [32,64] / 2 / 8 call returns (2,8,7).
C4Case ==
    /\ Called
    /\ args.global_cond_dim = None /\ args.local_cond_dim = None
    /\ call.global_cond = None /\ call.local_cond = None
    /\ call.horizon % Pow2(NumStages - 1) = 0
C4Scenario ==
    /\ Called
    /\ args.input_dim = 7 /\ args.down_dims = <<32, 64>>
    /\ args.global_cond_dim = None /\ args.local_cond_dim = None
    /\ ~args.returns_condition
    /\ call.batch = 2 /\ call.horizon = 8
    /\ call.global_cond = None /\ call.local_cond = None
C5_AbsentPathsInert ==
    Called =>
        /\ args.global_cond_dim = None =>
              global_feature = Tensor(call.batch, self.cond_dim, 1)
        /\ args.local_cond_dim = None =>
              h_local = <<>> /\ log.enc = 0 /\ log.dec = 0 /\ err # "TypeError"

\* C6: with returns_condition=True and returns supplied, forward gets past
\* the return-conditioning branch (it then concatenates the return
\* embedding, masked or zeroed, to the conditioning vector).
C6_ReturnsConditioningCompletes ==
    (Called /\ args.returns_condition /\ call.returns # None) =>
        err \notin {"AttributeError", "NameError", "AssertionError"}

\* C7: for N >= 2 the last encoder stage and the last decoder stage resample
\* by the identity, every other stage by Downsample1d / Upsample1d, and the
\* encoder and the decoder have the same number of stages.
C7_LastStagesIdentity ==
    (Constructed /\ NumStages >= 2) =>
        /\ \A i \in 1..Len(self.down_modules) :
              self.down_modules[i].resample =
                IF i = Len(self.down_modules) THEN "Identity" ELSE "Downsample1d"
        /\ \A i \in 1..Len(self.up_modules) :
              self.up_modules[i].resample =
                IF i = Len(self.up_modules) THEN "Identity" ELSE "Upsample1d"
        /\ Len(self.up_modules) = Len(self.down_modules)

\* C8: when local_cond is supplied to a model built with local_cond_dim,
\* a completed forward (N >= 2) has added h_local[0] once in the encoder
\* and h_local[1] once in the decoder.
C8_LocalInjectedOnBothSides ==
    (pc = "done" /\ args.local_cond_dim # None /\ call.local_cond # None
     /\ NumStages >= 2) =>
        log.enc = 1 /\ log.dec = 1

\* C9 as stated: the projection is out_channels wide, or 2*out_channels with
\* cond_predict_scale, then split into a first half (scale) and a second
\* half (bias); with all-zero weights and bias the modulation leaves the
\* first sub-block's output unchanged (scale 1, bias 0).
C9Split ==
    /\ Len(film.embed) =
         (IF film.cond_predict_scale THEN 2 * film.out_channels ELSE film.out_channels)
    /\ film.cond_predict_scale =>
         \A c \in 1..film.out_channels :
            film.result[c] =
               film.embed[c] * film.out[c] + film.embed[film.out_channels + c]
C9ZeroProjection ==
    film.cond_predict_scale /\ AllZero(film.weight) /\ AllZero(film.bias)
C9_ZeroProjectionIsNeutral ==
    film.stage = "out" =>
        /\ C9Split
        /\ C9ZeroProjection => film.result = film.out

\* C9 amended: as above, but with all-zero weights and bias the applied
\* scale is 0 and the applied bias is 0: the modulation's output is zero.
C9_ZeroProjectionZeroes ==
    film.stage = "out" =>
        /\ C9Split
        /\ C9ZeroProjection =>
              /\ AllZero(EmbedScale(film.embed, film.out_channels))
              /\ AllZero(EmbedBias(film.embed, film.out_channels))
              /\ AllZero(film.result)
C9_Witness ==
    /\ film.stage = "out" /\ C9ZeroProjection /\ film.out_channels = 2
    /\ film.out = <<1, 2>> /\ film.result = <<0, 0>>

\* C10: every GroupNorm built by the constructor uses the constructor's
\* n_groups, so construction succeeds exactly when n_groups divides every
\* entry of down_dims.
C10_GroupNormUsesConfiguredGroups ==
    pc \in {"ready", "ctor_error"} =>
        /\ pc = "ready" <=>
              \A i \in 1..NumStages : args.down_dims[i] % args.n_groups = 0
        /\ pc = "ready" =>
              /\ \A rb \in AllBlocks(self) : \A i \in 1..2 :
                    rb.blocks[i].n_groups = args.n_groups
              /\ self.final_conv.block.n_groups = args.n_groups

====
